---------------------------- MODULE Spec2Model ----------------------------
(***************************************************************************)
(* scripts/generate-midi.py: a straight-line script that builds a mido     *)
(* MidiFile of four tracks (tempo, pad, melody, arpeggio) from literal     *)
(* tables and saves it to "calm_spheric_loop.mid".                         *)
(*                                                                         *)
(* One action per statement of the script.  pc names the line that runs    *)
(* next; ci and ni are the 0-based positions of the enclosing for-loops.   *)
(* Python track objects are references: a track is bound to a name, the    *)
(* same object is appended to mid.tracks and mutated afterwards, so the    *)
(* model keeps the event lists in `track` (by name) and mid.tracks as a    *)
(* list of names.                                                          *)
(***************************************************************************)
EXTENDS Integers, Sequences, FiniteSets, TLC

VARIABLES
    pc,             \* the statement that runs next
    ci,             \* outer loop position (chord / phrase / pattern), 0-based
    ni,             \* inner loop position (note), 0-based
    duration,       \* the script's variable `duration` (line 40)
    ticks_per_beat, \* mid.ticks_per_beat; 0 while mid is unbound
    mid_tracks,     \* mid.tracks: the track objects in append order
    bound,          \* the track names bound to a MidiTrack object
    track,          \* the event list of each track object
    file,           \* the file at file_path
    saves,          \* how many times this invocation has called mid.save
    run,            \* which invocation of the script this is
    runs            \* what the finished invocations built and left on disk

vars == <<pc, ci, ni, duration, ticks_per_beat, mid_tracks, bound, track, file, saves, run, runs>>

\* How many times the script is invoked in SpecTwice.
MaxRuns == 2

(***************************************************************************)
(* Literal data of the script.                                             *)
(***************************************************************************)
TrackNames == {"tempo_track", "pad", "melody", "arp"}

pad_chords ==
    << <<62, 65, 69>>,
       <<60, 64, 67>>,
       <<55, 59, 62>>,
       <<57, 60, 64>> >>

phrase_a == <<69, 71, 72, 71, 69, 67, 65, 67>>
phrase_b == <<72, 74, 76, 74, 72, 71, 69, 67>>
phrase_c == <<67, 69, 71, 72, 71, 69, 67, 65>>

phrases == <<phrase_a, phrase_b, phrase_a, phrase_c>>

arp_patterns ==
    << <<62, 65, 69, 74>>,
       <<60, 64, 67, 72>>,
       <<55, 59, 62, 67>>,
       <<57, 60, 64, 69>> >>

\* Python's list * n.
RECURSIVE Repeat(_, _)
Repeat(s, n) == IF n = 0 THEN <<>> ELSE s \o Repeat(s, n - 1)

PadRepeat == 2
ArpRepeat == 4

\* the "* 2" of line 22 left out
pad_items_once == pad_chords

pad_items == Repeat(pad_chords, PadRepeat)
arp_items == Repeat(arp_patterns, ArpRepeat)

(***************************************************************************)
(* mido messages.  time defaults to 0 (the MetaMessage of line 8).         *)
(***************************************************************************)
SetTempo(tempo) == [type |-> "set_tempo", tempo |-> tempo, time |-> 0]
ProgramChange(program, time) == [type |-> "program_change", program |-> program, time |-> time]
NoteOn(note, velocity, time) == [type |-> "note_on", note |-> note, velocity |-> velocity, time |-> time]
NoteOff(note, velocity, time) == [type |-> "note_off", note |-> note, velocity |-> velocity, time |-> time]

\* track.append(msg)
AppendTo(t, msg) == [track EXCEPT ![t] = Append(@, msg)]

\* x[k] of a 0-based Python list
At(s, k) == s[k + 1]

Loop == <<ci, ni, duration>>
Midi == <<ticks_per_beat, mid_tracks, bound, track>>
Env == <<file, saves, run, runs>>
Hist == <<run, runs>>

Init ==
    /\ pc = "L3"
    /\ ci = 0
    /\ ni = 0
    /\ duration = 0
    /\ ticks_per_beat = 0
    /\ mid_tracks = <<>>
    /\ bound = {}
    /\ track = [t \in TrackNames |-> <<>>]
    /\ file = [exists |-> FALSE, open |-> FALSE, chunks |-> <<>>]
    /\ saves = 0
    /\ run = 1
    /\ runs = <<>>


(***************************************************************************)
(* Lines 3-8: the MidiFile and its tempo track.                            *)
(***************************************************************************)
\* mid = MidiFile(ticks_per_beat=480)
NewMidiFile ==
    /\ pc = "L3"
    /\ ticks_per_beat' = 480
    /\ mid_tracks' = <<>>
    /\ pc' = "L6"
    /\ UNCHANGED <<Loop, bound, track, Env>>

\* <name> = MidiTrack()
NewTrack(at, t, next) ==
    /\ pc = at
    /\ bound' = bound \cup {t}
    /\ track' = [track EXCEPT ![t] = <<>>]
    /\ pc' = next
    /\ UNCHANGED <<Loop, ticks_per_beat, mid_tracks, Env>>

\* mid.tracks.append(<name>)
AddTrack(at, t, next) ==
    /\ pc = at
    /\ t \in bound
    /\ mid_tracks' = Append(mid_tracks, t)
    /\ pc' = next
    /\ UNCHANGED <<Loop, ticks_per_beat, bound, track, Env>>

\* <name>.append(msg), outside the loops
AppendMsg(at, t, msg, next) ==
    /\ pc = at
    /\ t \in bound
    /\ track' = AppendTo(t, msg)
    /\ pc' = next
    /\ UNCHANGED <<Loop, ticks_per_beat, mid_tracks, bound, Env>>

NewTempoTrack == NewTrack("L6", "tempo_track", "L7")
AddTempoTrack == AddTrack("L7", "tempo_track", "L8")
AppendSetTempo == AppendMsg("L8", "tempo_track", SetTempo(666667), "L11")

(***************************************************************************)
(* Lines 11-27: the pad track.                                             *)
(***************************************************************************)
NewPad == NewTrack("L11", "pad", "L12")
\* mid.tracks.insert(0, pad) in place of append
AddPadFirst ==
    /\ pc = "L12"
    /\ mid_tracks' = <<"pad">> \o mid_tracks
    /\ pc' = "L13"
    /\ UNCHANGED <<Loop, ticks_per_beat, bound, track, Env>>

AddPad == AddTrack("L12", "pad", "L13")
PadProgram == AppendMsg("L13", "pad", ProgramChange(90, 0), "L22")

\* the chord the loop of line 22 is at
chord == At(pad_items, ci)

\* for chord in pad_chords * 2:
PadLoop ==
    /\ pc = "L22"
    /\ IF ci < Len(pad_items)
         THEN /\ pc' = "L23"
              /\ ni' = 0
              /\ ci' = ci
         ELSE /\ pc' = "L30"
              /\ ni' = 0
              /\ ci' = 0
    /\ UNCHANGED <<duration, Midi, Env>>

\* for note in chord:
PadNoteLoop ==
    /\ pc = "L23"
    /\ pc' = IF ni < Len(chord) THEN "L24" ELSE "L25"
    /\ UNCHANGED <<Loop, Midi, Env>>

\* pad.append(Message('note_on', note=note, velocity=40, time=0))
PadNoteOn ==
    /\ pc = "L24"
    /\ track' = AppendTo("pad", NoteOn(At(chord, ni), 40, 0))
    /\ ni' = ni + 1
    /\ pc' = "L23"
    /\ UNCHANGED <<ci, duration, ticks_per_beat, mid_tracks, bound, Env>>

\* pad.append(Message('note_off', note=chord[k], velocity=0, time=...))
PadOff(at, k, time, next) ==
    /\ pc = at
    /\ track' = AppendTo("pad", NoteOff(At(chord, k), 0, time))
    /\ pc' = next
    /\ ci' = IF next = "L22" THEN ci + 1 ELSE ci
    /\ UNCHANGED <<ni, duration, ticks_per_beat, mid_tracks, bound, Env>>

\* line 25 with time=0: no NoteOff of the chord advances the clock
PadNoteOff0_NoDelta == PadOff("L25", 0, 0, "L26")
\* line 26 releasing chord[0] again
PadNoteOff1_FirstPitch == PadOff("L26", 0, 0, "L27")
\* line 27 with time=960: a staggered release
PadNoteOff2_FullDelta == PadOff("L27", 2, 960, "L22")

PadNoteOff0 == PadOff("L25", 0, 960, "L26")
PadNoteOff1 == PadOff("L26", 1, 0, "L27")
PadNoteOff2 == PadOff("L27", 2, 0, "L22")

(***************************************************************************)
(* Lines 30-42: the melody track.                                          *)
(***************************************************************************)
NewMelody == NewTrack("L30", "melody", "L31")
AddMelody == AddTrack("L31", "melody", "L32")
MelodyProgram == AppendMsg("L32", "melody", ProgramChange(73, 0), "L38")

\* the phrase the loop of line 38 is at
phrase == At(phrases, ci)

\* mid.save placed above the arpeggio block
MelodyLoopThenSave ==
    /\ pc = "L38"
    /\ IF ci < Len(phrases)
         THEN /\ pc' = "L39"
              /\ ni' = 0
              /\ ci' = ci
         ELSE /\ pc' = "L63"
              /\ ni' = 0
              /\ ci' = 0
    /\ UNCHANGED <<duration, Midi, Env>>

\* for phrase in [phrase_a, phrase_b, phrase_a, phrase_c]:
MelodyLoop ==
    /\ pc = "L38"
    /\ IF ci < Len(phrases)
         THEN /\ pc' = "L39"
              /\ ni' = 0
              /\ ci' = ci
         ELSE /\ pc' = "L45"
              /\ ni' = 0
              /\ ci' = 0
    /\ UNCHANGED <<duration, Midi, Env>>

\* for i, note in enumerate(phrase):
MelodyNoteLoop ==
    /\ pc = "L39"
    /\ IF ni < Len(phrase)
         THEN /\ pc' = "L40"
              /\ ci' = ci
         ELSE /\ pc' = "L38"
              /\ ci' = ci + 1
    /\ UNCHANGED <<ni, duration, Midi, Env>>

\* the long note on the first of every four notes
NoteDurationFirstOfFour(i) == IF i % 4 = 0 THEN 960 ELSE 480

\* 960 if i % 4 == 3 else 480
NoteDuration(i) == IF i % 4 = 3 THEN 960 ELSE 480

\* duration = 960 if i % 4 == 3 else 480
MelodyDuration ==
    /\ pc = "L40"
    /\ duration' = NoteDuration(ni)
    /\ pc' = "L41"
    /\ UNCHANGED <<ci, ni, Midi, Env>>

\* melody.append(Message('note_on', note=note, velocity=55, time=0))
MelodyNoteOn ==
    /\ pc = "L41"
    /\ track' = AppendTo("melody", NoteOn(At(phrase, ni), 55, 0))
    /\ pc' = "L42"
    /\ UNCHANGED <<Loop, ticks_per_beat, mid_tracks, bound, Env>>

\* melody.append(Message('note_off', note=note, velocity=0, time=duration))
MelodyNoteOff ==
    /\ pc = "L42"
    /\ track' = AppendTo("melody", NoteOff(At(phrase, ni), 0, duration))
    /\ ni' = ni + 1
    /\ pc' = "L39"
    /\ UNCHANGED <<ci, duration, ticks_per_beat, mid_tracks, bound, Env>>

(***************************************************************************)
(* Lines 45-59: the arpeggio track.                                        *)
(***************************************************************************)
NewArp == NewTrack("L45", "arp", "L46")
AddArp == AddTrack("L46", "arp", "L47")
ArpProgram == AppendMsg("L47", "arp", ProgramChange(46, 0), "L56")

\* the pattern the loop of line 56 is at
pattern == At(arp_items, ci)

\* for pattern in arp_patterns * 4:
ArpLoop ==
    /\ pc = "L56"
    /\ IF ci < Len(arp_items)
         THEN /\ pc' = "L57"
              /\ ni' = 0
              /\ ci' = ci
         ELSE /\ pc' = "L63"
              /\ ni' = 0
              /\ ci' = 0
    /\ UNCHANGED <<duration, Midi, Env>>

\* for note in pattern:
ArpNoteLoop ==
    /\ pc = "L57"
    /\ IF ni < Len(pattern)
         THEN /\ pc' = "L58"
              /\ ci' = ci
         ELSE /\ pc' = "L56"
              /\ ci' = ci + 1
    /\ UNCHANGED <<ni, duration, Midi, Env>>

\* arp.append(Message('note_on', note=note, velocity=35, time=0))
ArpNoteOn ==
    /\ pc = "L58"
    /\ track' = AppendTo("arp", NoteOn(At(pattern, ni), 35, 0))
    /\ pc' = "L59"
    /\ UNCHANGED <<Loop, ticks_per_beat, mid_tracks, bound, Env>>

\* arp.append(Message('note_off', note=note, velocity=0, time=240))
ArpNoteOff ==
    /\ pc = "L59"
    /\ track' = AppendTo("arp", NoteOff(At(pattern, ni), 0, 240))
    /\ ni' = ni + 1
    /\ pc' = "L57"
    /\ UNCHANGED <<ci, duration, ticks_per_beat, mid_tracks, bound, Env>>

(***************************************************************************)
(* Line 63: mid.save(file_path).  The script calls mido's MidiFile.save on *)
(* the destination path itself: the file is opened for writing (created or *)
(* truncated), the header chunk and then one chunk per track of mid.tracks *)
(* are written in order, and the file is closed.  The script has no        *)
(* try/except, no temporary file and no rename around the call, so an      *)
(* OSError raised by the open or by a write ends the script with whatever  *)
(* the call has left at file_path.                                         *)
(***************************************************************************)
HeaderChunk == [type |-> "MThd", ntrks |-> Len(mid_tracks), division |-> ticks_per_beat, events |-> <<>>]
TrackChunk(t) == [type |-> "MTrk", ntrks |-> 0, division |-> 0, events |-> track[t]]

\* open(file_path, 'ab'): what is at the path is kept
OpenForAppend(f) == [exists |-> TRUE, open |-> TRUE, chunks |-> f.chunks]

\* what open(file_path, 'wb') leaves at the path
OpenForWriting(f) == [exists |-> TRUE, open |-> TRUE, chunks |-> <<>>]

SaveOpen ==
    /\ pc = "L63"
    /\ saves' = saves + 1
    /\ file' = OpenForWriting(file)
    /\ pc' = "save_header"
    /\ UNCHANGED <<Loop, Midi, Hist>>

\* the destination cannot be opened for writing: OSError, nothing is touched
SaveOpenFail ==
    /\ pc = "L63"
    /\ saves' = saves + 1
    /\ pc' = "failed"
    /\ UNCHANGED <<Loop, Midi, file, Hist>>

SaveWriteHeader ==
    /\ pc = "save_header"
    /\ file' = [file EXCEPT !.chunks = Append(@, HeaderChunk)]
    /\ pc' = "save_track"
    /\ UNCHANGED <<Loop, Midi, saves, Hist>>

\* for track in mid.tracks: one chunk each, in the order of mid.tracks
SaveWriteTrack ==
    /\ pc = "save_track"
    /\ ci < Len(mid_tracks)
    /\ file' = [file EXCEPT !.chunks = Append(@, TrackChunk(At(mid_tracks, ci)))]
    /\ ci' = ci + 1
    /\ pc' = "save_track"
    /\ UNCHANGED <<ni, duration, Midi, saves, Hist>>

\* a write fails (disk full, I/O error): OSError leaves the with block, which closes the file
SaveWriteFail ==
    /\ pc \in {"save_header", "save_track"}
    /\ file' = [file EXCEPT !.open = FALSE]
    /\ pc' = "failed"
    /\ UNCHANGED <<Loop, Midi, saves, Hist>>

SaveClose ==
    /\ pc = "save_track"
    /\ ci = Len(mid_tracks)
    /\ file' = [file EXCEPT !.open = FALSE]
    /\ pc' = "done"
    /\ UNCHANGED <<Loop, Midi, saves, Hist>>

(***************************************************************************)
(* The script is run again: a new process, the same file system.           *)
(***************************************************************************)
\* the event lists of mid.tracks, in order
Built == [k \in 1..Len(mid_tracks) |-> track[mid_tracks[k]]]

Restart ==
    /\ pc \in {"done", "failed"}
    /\ run < MaxRuns
    /\ runs' = Append(runs, [ok |-> pc = "done", tracks |-> Built, file |-> file])
    /\ run' = run + 1
    /\ saves' = 0
    /\ pc' = "L3"
    /\ ci' = 0
    /\ ni' = 0
    /\ duration' = 0
    /\ ticks_per_beat' = 0
    /\ mid_tracks' = <<>>
    /\ bound' = {}
    /\ track' = [t \in TrackNames |-> <<>>]
    /\ UNCHANGED file

Next ==
    \/ NewMidiFile
    \/ NewTempoTrack \/ AddTempoTrack \/ AppendSetTempo
    \/ NewPad \/ AddPad \/ PadProgram
    \/ PadLoop \/ PadNoteLoop \/ PadNoteOn
    \/ PadNoteOff0 \/ PadNoteOff1 \/ PadNoteOff2
    \/ NewMelody \/ AddMelody \/ MelodyProgram
    \/ MelodyLoop \/ MelodyNoteLoop \/ MelodyDuration
    \/ MelodyNoteOn \/ MelodyNoteOff
    \/ NewArp \/ AddArp \/ ArpProgram
    \/ ArpLoop \/ ArpNoteLoop \/ ArpNoteOn \/ ArpNoteOff
    \/ SaveOpen \/ SaveOpenFail
    \/ SaveWriteHeader \/ SaveWriteTrack \/ SaveWriteFail \/ SaveClose

\* one invocation of the script
Spec == Init /\ [][Next]_vars

NextTwice == Next \/ Restart

\* the script invoked MaxRuns times in a row on the same file system
SpecTwice == Init /\ [][NextTwice]_vars

(***************************************************************************)
(* Vocabulary of the properties.                                           *)
(***************************************************************************)
SaveStages == {"save_header", "save_track", "done", "failed"}
\* every loop has ended: line 63 is next, is running or has run
PopulationDone == pc \in {"L63"} \cup SaveStages
ArpStages == {"L45", "L46", "L47", "L56", "L57", "L58", "L59"}
MelodyStages == {"L30", "L31", "L32", "L38", "L39", "L40", "L41", "L42"}
\* the loop of a track has ended
LoopDone(t) ==
    CASE t = "pad" -> pc \in MelodyStages \cup ArpStages \/ PopulationDone
      [] t = "melody" -> pc \in ArpStages \/ PopulationDone
      [] t = "arp" -> PopulationDone
      [] OTHER -> pc \notin {"L3", "L6", "L7", "L8"}

NoteTracks == {"pad", "melody", "arp"}
TrackOrder == <<"tempo_track", "pad", "melody", "arp">>

\* the sum of the delta-times of events lo..hi of s
RECURSIVE SumRange(_, _, _)
SumRange(s, lo, hi) ==
    IF lo > hi THEN 0
    ELSE IF lo = hi THEN s[lo].time
    ELSE LET half == (lo + hi) \div 2
         IN  SumRange(s, lo, half) + SumRange(s, half + 1, hi)

\* the sum of the delta-times of an event list
SumTime(s) == SumRange(s, 1, Len(s))

\* the tick at which event k of s happens
Elapsed(s, k) == SumRange(s, 1, k)

\* event m of s is a NoteOff of the pitch of event j
Releases(s, m, j) == s[m].type = "note_off" /\ s[m].note = s[j].note

\* the NoteOns among the first k events of s with no NoteOff of their pitch after them
Unmatched(s, k) ==
    {j \in 1..k : s[j].type = "note_on" /\ \A m \in (j + 1)..k : ~Releases(s, m, j)}

\* the pitches sounding after the first k events of s
OpenAfter(s, k) == {s[j].note : j \in Unmatched(s, k)}

\* the score as the specification states it
ExpectedChords == pad_chords \o pad_chords
ExpectedDuration(i) == IF i \in {3, 7} THEN 960 ELSE 480
RECURSIVE ExpectedPhraseTicks(_)
ExpectedPhraseTicks(n) == IF n = 0 THEN 0 ELSE ExpectedDuration(n - 1) + ExpectedPhraseTicks(n - 1)

(***************************************************************************)
(* C1.  Every chord of the pad track is three NoteOns in chord order, each *)
(* with velocity 40 and delta-time 0, immediately followed by three        *)
(* NoteOffs in the same order with delta-times 960, 0, 0; the finished     *)
(* track holds the 8 chords of pad_chords * 2 and nothing else after its   *)
(* program change.                                                         *)
(***************************************************************************)
PadChordEvents(k) == SubSeq(track["pad"], 2 + 6 * k, 7 + 6 * k)

ChordEncoding(c) ==
    << NoteOn(c[1], 40, 0), NoteOn(c[2], 40, 0), NoteOn(c[3], 40, 0),
       NoteOff(c[1], 0, 960), NoteOff(c[2], 0, 0), NoteOff(c[3], 0, 0) >>

C1_PadChordEncoding ==
    /\ \A k \in 0..(Len(ExpectedChords) - 1) :
          7 + 6 * k <= Len(track["pad"])
             => PadChordEvents(k) = ChordEncoding(ExpectedChords[k + 1])
    /\ Len(track["pad"]) <= 1 + 6 * Len(ExpectedChords)
    /\ LoopDone("pad") => Len(track["pad"]) = 1 + 6 * Len(ExpectedChords)

\* the pad loop has ended and the first chord is the fixture [62,65,69] / 40 / 960
C1_Witness ==
    /\ pc = "L30"
    /\ Len(track["pad"]) = 49
    /\ <<track["pad"][5].time, track["pad"][6].time, track["pad"][7].time>> = <<960, 0, 0>>
    /\ <<track["pad"][2].note, track["pad"][3].note, track["pad"][4].note>> = <<62, 65, 69>>

(***************************************************************************)
(* C2.  On the pad, melody and arpeggio tracks no NoteOn for a pitch is    *)
(* appended while that pitch is still sounding on the track; once the      *)
(* track's loop has ended every NoteOn has a later NoteOff of its pitch    *)
(* and no pitch is left sounding; nor is one between two chords or notes.  *)
(***************************************************************************)
\* the loop heads of a track: a whole number of chords or notes is on it
BetweenEmits(t) ==
    CASE t = "pad" -> pc = "L22"
      [] t = "melody" -> pc \in {"L38", "L39"}
      [] t = "arp" -> pc \in {"L56", "L57"}
      [] OTHER -> FALSE

\* no NoteOn of a pitch while an earlier NoteOn of that pitch is unmatched
NoDoubleOpen(s) ==
    \A k \in 1..Len(s) : \A j \in 1..(k - 1) :
        (s[k].type = "note_on" /\ s[j].type = "note_on" /\ s[j].note = s[k].note)
           => \E m \in (j + 1)..(k - 1) : Releases(s, m, j)

EveryOnClosed(s) ==
    \A k \in 1..Len(s) :
        s[k].type = "note_on" => \E m \in (k + 1)..Len(s) : Releases(s, m, k)

C2_NotesWellFormed ==
    \A t \in NoteTracks :
        /\ NoDoubleOpen(track[t])
        /\ LoopDone(t) => EveryOnClosed(track[t]) /\ OpenAfter(track[t], Len(track[t])) = {}
        /\ BetweenEmits(t) => OpenAfter(track[t], Len(track[t])) = {}

\* all three loops have ended and each track holds notes
C2_Witness ==
    /\ pc = "L63"
    /\ \A t \in NoteTracks : \E k \in 1..Len(track[t]) : track[t][k].type = "note_on"

(***************************************************************************)
(* C3.  On every track the events are in non-decreasing order of elapsed   *)
(* time; between two emits (at the head of a loop) the delta-times of the  *)
(* track sum to the durations of the chords or notes emitted so far; and   *)
(* SetTempo, ProgramChange, NoteOn and the trailing NoteOffs of a chord    *)
(* have delta-time 0.                                                      *)
(***************************************************************************)
TimeOrdered(s) == \A k \in 1..(Len(s) - 1) : Elapsed(s, k) <= Elapsed(s, k + 1)

ZeroDeltaEvents(s) ==
    \A k \in 1..Len(s) :
        /\ s[k].type \in {"set_tempo", "program_change", "note_on"} => s[k].time = 0
        /\ (k > 1 /\ s[k].type = "note_off" /\ s[k - 1].type = "note_off") => s[k].time = 0

C3_DeltaTimeAccounting ==
    /\ \A t \in TrackNames : TimeOrdered(track[t]) /\ ZeroDeltaEvents(track[t])
    /\ SumTime(track["tempo_track"]) = 0
    /\ pc = "L22" => SumTime(track["pad"]) = 960 * ci
    /\ pc = "L38" => SumTime(track["melody"]) = ExpectedPhraseTicks(8) * ci
    /\ pc = "L39" => SumTime(track["melody"]) = ExpectedPhraseTicks(8) * ci + ExpectedPhraseTicks(ni)
    /\ pc = "L56" => SumTime(track["arp"]) = 240 * 4 * ci
    /\ pc = "L57" => SumTime(track["arp"]) = 240 * (4 * ci + ni)

\* between two arpeggio notes, pad and melody finished
C3_Witness ==
    /\ pc = "L57"
    /\ ci = 3
    /\ ni = 2
    /\ SumTime(track["arp"]) = 3360
    /\ SumTime(track["pad"]) > 0

(***************************************************************************)
(* C4.  After its program change the melody track is NoteOn / NoteOff      *)
(* pairs: the NoteOn has delta-time 0, the NoteOff is the next event, has  *)
(* the same pitch, and its delta-time is 960 for the notes at index 3 and  *)
(* 7 of each 8-note phrase and 480 for the others.  The arpeggio track is  *)
(* the same with 240 for every note.                                       *)
(***************************************************************************)
NotePairs(s, velocity, dur(_)) ==
    \A k \in 2..Len(s) :
        IF k % 2 = 0
          THEN s[k].type = "note_on" /\ s[k].time = 0 /\ s[k].velocity = velocity
          ELSE /\ s[k].type = "note_off"
               /\ s[k].note = s[k - 1].note
               /\ s[k].time = dur((k - 3) \div 2)

MelodyTicks(n) == ExpectedDuration(n % 8)
ArpTicks(n) == 240

C4_SingleNoteEncoding ==
    /\ NotePairs(track["melody"], 55, MelodyTicks)
    /\ NotePairs(track["arp"], 35, ArpTicks)
    /\ LoopDone("melody") => Len(track["melody"]) = 1 + 2 * 32
    /\ LoopDone("arp") => Len(track["arp"]) = 1 + 2 * 64

\* both loops have ended; the melody's fourth note is long, its fifth short
C4_Witness ==
    /\ pc = "L63"
    /\ track["melody"][9].time = 960
    /\ track["melody"][11].time = 480
    /\ track["arp"][3].time = 240

(***************************************************************************)
(* C6.  Whenever no write is in progress, file_path holds no file or the   *)
(* complete file; after a failed mid.save there is no file at file_path.   *)
(* (One invocation, starting with no file at the path.)                    *)
(***************************************************************************)
CompleteFile ==
    <<HeaderChunk>> \o [k \in 1..Len(mid_tracks) |-> TrackChunk(mid_tracks[k])]

C6_AllOrNothingWrite ==
    /\ (file.exists /\ ~file.open) => file.chunks = CompleteFile
    /\ pc = "failed" => ~file.exists

(***************************************************************************)
(* C7.  mid.tracks is always a prefix of tempo, pad, melody, arpeggio, and *)
(* from line 8 on it is not empty; the tempo track never holds anything    *)
(* but the one SetTempo of 666667 with delta-time 0; the track chunks of   *)
(* the file are in the same order.                                         *)
(***************************************************************************)
C7_TrackOrder ==
    /\ Len(mid_tracks) <= Len(TrackOrder)
    /\ mid_tracks = SubSeq(TrackOrder, 1, Len(mid_tracks))
    /\ pc \notin {"L3", "L6", "L7"} => Len(mid_tracks) >= 1 /\ mid_tracks[1] = "tempo_track"
    /\ track["tempo_track"] \in {<<>>, <<[type |-> "set_tempo", tempo |-> 666667, time |-> 0]>>}
    /\ LoopDone("tempo_track") => track["tempo_track"] # <<>>
    /\ \A k \in 2..Len(file.chunks) :
          file.chunks[k].type = "MTrk" /\ file.chunks[k].events = track[TrackOrder[k - 1]]
    /\ pc = "done" => Len(file.chunks) = 1 + Len(TrackOrder) /\ file.chunks[1].type = "MThd"

\* the file is written: four tracks, five chunks
C7_Witness ==
    /\ pc = "done"
    /\ Len(mid_tracks) = 4
    /\ Len(file.chunks) = 5
    /\ Len(file.chunks[3].events) = 49

(***************************************************************************)
(* C8.  Every invocation of the script builds the same tracks with the     *)
(* same events as every earlier invocation, and when both wrote the file   *)
(* to the end they left the same file.                                     *)
(***************************************************************************)
C8_Deterministic ==
    \A r \in 1..Len(runs) :
        /\ PopulationDone => Built = runs[r].tracks
        /\ (pc = "done" /\ runs[r].ok) => file = runs[r].file

\* a second invocation has finished after a first one that finished
C8_Witness ==
    /\ Len(runs) >= 1
    /\ runs[1].ok
    /\ Len(runs[1].tracks) = 4
    /\ pc = "done"
    /\ Len(file.chunks) = 5

(***************************************************************************)
(* C9.  mid.save is called at most once, and has been called once the      *)
(* script is past line 63; it is called only when all four tracks are in   *)
(* mid.tracks with all their events; from the call on, no track and no     *)
(* event is added or changed.                                              *)
(***************************************************************************)
TracksComplete ==
    /\ mid_tracks = TrackOrder
    /\ Len(track["tempo_track"]) = 1
    /\ Len(track["pad"]) = 1 + 6 * 8
    /\ Len(track["melody"]) = 1 + 2 * 32
    /\ Len(track["arp"]) = 1 + 2 * 64

C9_State ==
    /\ saves \in {0, 1}
    /\ saves = 1 <=> pc \in SaveStages
    /\ saves = 1 => TracksComplete
    /\ file.exists => saves = 1

C9_LinearPipeline ==
    /\ []C9_State
    /\ [][saves' # saves => pc = "L63" /\ TracksComplete]_vars
    /\ [][saves = 1 => UNCHANGED <<ticks_per_beat, mid_tracks, bound, track>>]_vars

\* the file has been written to the end
C9_Witness ==
    /\ pc = "done"
    /\ saves = 1
    /\ file.chunks = CompleteFile

(***************************************************************************)
(* C10.  Once the loops have ended the delta-times sum to 0 on the tempo   *)
(* track, 7680 on the pad track, 19200 on the melody track and 15360 on    *)
(* the arpeggio track: the three note tracks end at different ticks.       *)
(***************************************************************************)
C10_TrackTotals ==
    PopulationDone =>
        /\ SumTime(track["tempo_track"]) = 0
        /\ SumTime(track["pad"]) = 7680
        /\ SumTime(track["melody"]) = 19200
        /\ SumTime(track["arp"]) = 15360
        /\ Cardinality({SumTime(track[t]) : t \in TrackNames}) = 4

\* the build has ended and the pad track holds its 48 note events
C10_Witness ==
    /\ pc = "L63"
    /\ Len(track["pad"]) = 49
    /\ Len(track["arp"]) = 129

=============================================================================
